---- MODULE Spec2Model ----
(***************************************************************************)
(* sqlite3-restore: the lock acquisition protocol of main.go (lockAll,     *)
(* lock, isWALMode) and the lock-guarded replacement of the destination    *)
(* database (run), against the record-lock semantics of fcntl(F_SETLK)     *)
(* and against other processes that lock the same files.                   *)
(***************************************************************************)
EXTENDS Integers, Sequences, FiniteSets, TLC

(* ---------------- lock bytes and sizes of main.go ---------------------- *)

PENDING == 1073741824
RESERVED == 1073741825
SHARED == 1073741826

WRITE == 120
CKPT == 121
RECOVER == 122
READ0 == 123
READ1 == 124
READ2 == 125
READ3 == 126
READ4 == 127
DMS == 128

SharedSize == 510
HeaderSize == 100
WriteVersionOff == 18
ReadVersionOff == 19
WALVersion == 2
ShmHeaderSize == 136
DefaultTimeout == 5

(* ---------------- bounds of the model ---------------------------------- *)

\* the longest destination has MaxExtra bytes more than the source
MaxExtra == 1
\* the header version bytes range over 1..MaxVersion
MaxVersion == 2

(* ---------------- names ------------------------------------------------- *)

DbRegions == {"PENDING", "RESERVED", "SHARED"}

ShmRegions ==
  {"WRITE", "CKPT", "RECOVER", "READ0", "READ1", "READ2", "READ3", "READ4", "DMS"}

Regions == DbRegions \cup ShmRegions

ReadSlots == {"READ0", "READ1", "READ2", "READ3", "READ4"}

Files == {"db", "shm"}

FileOf(name) == IF name \in DbRegions THEN "db" ELSE "shm"

LockByte(name) ==
  CASE name = "PENDING" -> PENDING
    [] name = "RESERVED" -> RESERVED
    [] name = "SHARED" -> SHARED
    [] name = "WRITE" -> WRITE
    [] name = "CKPT" -> CKPT
    [] name = "RECOVER" -> RECOVER
    [] name = "READ0" -> READ0
    [] name = "READ1" -> READ1
    [] name = "READ2" -> READ2
    [] name = "READ3" -> READ3
    [] name = "READ4" -> READ4
    [] name = "DMS" -> DMS

Runs == {1, 2}
Foreign == {3}
Procs == Runs \cup Foreign

(* ---------------- 64-bit file offsets ---------------------------------- *)
(* Flock_t.Start and Flock_t.Len are int64; Start + Len exceeds 2^31 for   *)
(* the database lock bytes, so an offset is kept as <<high, low>> with     *)
(* value high * 2^30 + low.                                                *)

Limb == 2 ^ 30

Off(x) == <<x \div Limb, x % Limb>>

AddOff(a, b) ==
  LET s == a[2] + b[2]
  IN  <<a[1] + b[1] + (s \div Limb), s % Limb>>

LessOff(a, b) == a[1] < b[1] \/ (a[1] = b[1] /\ a[2] < b[2])

(* ---------------- the byte range of a lock request --------------------- *)

\* lock(): start, end := byt, byt; if start == SHARED { end = SHARED + 510 }
lockStart(byt) == byt

lockEnd(byt) == IF byt = SHARED THEN SHARED + SharedSize ELSE byt

\* lock(): syscall.Flock_t{Start: start, Len: end, ...}
FlockRange(byt) == [start |-> Off(lockStart(byt)), len |-> Off(lockEnd(byt))]

\* the region table that other processes lock by: (start, 1), SHARED (start, 510)
flockLen(byt) == IF byt = SHARED THEN SharedSize ELSE 1

RegionRange(name) ==
  [start |-> Off(LockByte(name)), len |-> Off(flockLen(LockByte(name)))]

RangeEnd(rg) == AddOff(rg.start, rg.len)

\* F_SETLK covers the bytes Start <= c < Start + Len
Covers(rg, c) == ~LessOff(c, rg.start) /\ LessOff(c, RangeEnd(rg))

(* The lock state of a file is constant between two consecutive range      *)
(* boundaries, so a file is represented by the bytes at which some range   *)
(* of either table begins or ends.                                         *)
RangeBounds(names) ==
  UNION { {FlockRange(LockByte(n)).start, RangeEnd(FlockRange(LockByte(n))),
           RegionRange(n).start, RangeEnd(RegionRange(n))} : n \in names }

DbCells == RangeBounds(DbRegions)

ShmCells == RangeBounds(ShmRegions)

Cells(file) == IF file = "db" THEN DbCells ELSE ShmCells

NoLocks == [f \in Files |-> [c \in Cells(f) |-> "U"]]

HeldAs(typ) == CASE typ = "RD" -> "R" [] typ = "WR" -> "W" [] typ = "UN" -> "U"

(* ---------------- file contents ----------------------------------------- *)

NoFile == [ex |-> FALSE, data |-> <<>>]

File(d) == [ex |-> TRUE, data |-> d]

Max(a, b) == IF a > b THEN a ELSE b

Min(a, b) == IF a < b THEN a ELSE b

\* make([]byte, n)
Zeros(n) == [i \in 1..n |-> 0]

\* write of the bytes b at offset o: the file grows when the write ends past it
WriteAt(d, o, b) ==
  [i \in 1..Max(Len(d), o + Len(b)) |->
     IF i > o /\ i <= o + Len(b) THEN b[i - o]
     ELSE IF i <= Len(d) THEN d[i] ELSE 0]

\* ftruncate to n bytes: cut, or extend with zero bytes
Resize(d, n) == [i \in 1..n |-> IF i <= Len(d) THEN d[i] ELSE 0]

\* io.ReadFull of n bytes at offset o: fewer than n bytes at the end of the file
ReadFull(d, o, n) == SubSeq(d, o + 1, Min(Len(d), o + n))

\* a header of exactly 100 bytes is taken for a short read
isWALModeShortBoundary(d, o) ==
  LET hdr == ReadFull(d, o, HeaderSize)
  IN  IF Len(hdr) <= HeaderSize THEN "rollback"
      ELSE IF hdr[WriteVersionOff + 1] # hdr[ReadVersionOff + 1] THEN "mismatch"
      ELSE IF hdr[WriteVersionOff + 1] = WALVersion THEN "wal"
      ELSE "rollback"

\* the write version alone decides, the read version is not compared
isWALModeNoCompare(d, o) ==
  LET hdr == ReadFull(d, o, HeaderSize)
  IN  IF Len(hdr) < HeaderSize THEN "rollback"
      ELSE IF hdr[WriteVersionOff + 1] = WALVersion THEN "wal"
      ELSE "rollback"

\* isWALMode: "rollback" is (false, nil), "wal" is (true, nil), "mismatch" the error
isWALMode(d, o) ==
  LET hdr == ReadFull(d, o, HeaderSize)
  IN  IF Len(hdr) < HeaderSize THEN "rollback"
      ELSE IF hdr[WriteVersionOff + 1] # hdr[ReadVersionOff + 1] THEN "mismatch"
      ELSE IF hdr[WriteVersionOff + 1] = WALVersion THEN "wal"
      ELSE "rollback"

(* ---------------- the lock requests of lockAll, in order --------------- *)

ProbePlan == << <<"RD", "PENDING">>, <<"RD", "SHARED">>, <<"UN", "PENDING">> >>

\* the last upgrade request made with F_RDLCK instead of F_WRLCK
RollbackPlanReadLock ==
  << <<"WR", "RESERVED">>, <<"WR", "PENDING">>, <<"RD", "SHARED">> >>

RollbackPlan == << <<"WR", "RESERVED">>, <<"WR", "PENDING">>, <<"WR", "SHARED">> >>

WalPlan ==
  << <<"RD", "DMS">>, <<"WR", "WRITE">>, <<"WR", "CKPT">>, <<"WR", "RECOVER">>,
     <<"WR", "READ0">>, <<"WR", "READ1">>, <<"WR", "READ2">>, <<"WR", "READ3">>,
     <<"WR", "READ4">> >>

PlanOf(p) ==
  CASE p = "probe" -> ProbePlan
    [] p = "rollback" -> RollbackPlan
    [] p = "wal" -> WalPlan

LockSteps == {"probe", "rollback", "wal"}

(* ---------------- state ------------------------------------------------- *)

VARIABLES
  pc,        \* position of each restore process in run / lockAll
  idx,       \* index of the lock request of lockAll that is being made
  at,        \* position in lock(): "try" the syscall, or "wait" in the select
  locks,     \* record locks: process -> file -> byte -> "U" | "R" | "W"
  fs,        \* the files: dst, journal, wal, shm, src
  off,       \* file offset of the destination handle
  size,      \* fi.Size() of the source
  mode,      \* result of isWALMode once it has run
  shmFile,   \* dstSHMFile != nil
  deferShm,  \* the deferred dstSHMFile.Close() is registered
  opened,    \* handles the process has open
  timeout,   \* the -timeout flag
  deadline,  \* lockCtx carries a deadline
  expired,   \* the deadline of lockCtx has passed
  err,       \* what run() returned
  exclReq,   \* an F_WRLCK request has been issued
  fpc,       \* position of each other process in its own locking
  fs0        \* the files as they were when the run started

vars ==
  <<pc, idx, at, locks, fs, off, size, mode, shmFile, deferShm, opened,
    timeout, deadline, expired, err, exclReq, fpc, fs0>>

(* ---------------- fcntl(F_SETLK) ---------------------------------------- *)

\* the request fails when another process holds a conflicting lock on a byte
Blocked(p, file, typ, rg) ==
  /\ typ # "UN"
  /\ \E q \in Procs \ {p} : \E c \in Cells(file) :
       /\ Covers(rg, c)
       /\ locks[q][file][c] # "U"
       /\ (typ = "WR" \/ locks[q][file][c] = "W")

\* a granted request replaces the caller's own locks on the bytes it covers
SetLk(tab, typ, rg) ==
  [c \in DOMAIN tab |-> IF Covers(rg, c) THEN HeldAs(typ) ELSE tab[c]]

\* close of a handle drops every lock the process holds on that file
Unlocked(file) == [c \in Cells(file) |-> "U"]

\* every byte of the named region is locked by p in one of the given ways
Holds(p, name, ways) ==
  \A c \in Cells(FileOf(name)) :
    Covers(RegionRange(name), c) => locks[p][FileOf(name)][c] \in ways

\* some byte of the named region is locked by p in one of the given ways
Touches(p, name, ways) ==
  \E c \in Cells(FileOf(name)) :
    Covers(RegionRange(name), c) /\ locks[p][FileOf(name)][c] \in ways

(* ---------------- the files a run starts from --------------------------- *)

\* a database image of n bytes with the given write and read version bytes
MkDb(n, w, r, fill) ==
  [i \in 1..n |->
     IF i = WriteVersionOff + 1 THEN w
     ELSE IF i = ReadVersionOff + 1 THEN r ELSE fill]

Versions == 1..MaxVersion

DstInputs ==
  {NoFile, File(<<>>), File(MkDb(HeaderSize - 1, WALVersion, WALVersion, 7))}
  \cup {File(MkDb(HeaderSize, w, r, 7)) : w \in Versions, r \in Versions}
  \cup {File(MkDb(HeaderSize + k, WALVersion, WALVersion, 7)) : k \in 1..MaxExtra}

SrcInputs == {File(MkDb(HeaderSize, v, v, 9)) : v \in {1, WALVersion}}

\* the side files of the destination: none of them, or all of them
SideInputs ==
  { [journal |-> NoFile, wal |-> NoFile, shm |-> NoFile],
    [journal |-> File(<<5>>), wal |-> File(<<5, 5>>),
     shm |-> File([i \in 1..(ShmHeaderSize + MaxExtra) |-> 5])] }

Timeouts == {0, DefaultTimeout}

(* ---------------- other processes --------------------------------------- *)
(* A process of the database engine locks the named regions of the region  *)
(* table: a reader takes PENDING and SHARED shared and drops PENDING, a    *)
(* writer goes on to RESERVED, PENDING and SHARED exclusive; a WAL client  *)
(* holds DMS shared and takes WRITE, CKPT, RECOVER or a read slot.  "hX"   *)
(* is a process that holds the SHARED region exclusively and nothing else. *)

ForeignMoves ==
  { <<"idle", "RD", "PENDING", "fP">>,   <<"fP", "UN", "PENDING", "idle">>,
    <<"fP", "RD", "SHARED", "fPS">>,     <<"fPS", "UN", "PENDING", "fS">>,
    <<"fS", "UN", "SHARED", "idle">>,    <<"fS", "WR", "RESERVED", "fR">>,
    <<"fR", "UN", "RESERVED", "fS">>,    <<"fR", "WR", "PENDING", "fRP">>,
    <<"fRP", "UN", "PENDING", "fR">>,    <<"fRP", "WR", "SHARED", "fX">>,
    <<"fX", "RD", "SHARED", "fRP">>,
    <<"hX", "UN", "SHARED", "idle">>,
    <<"idle", "RD", "DMS", "w">>,        <<"w", "UN", "DMS", "idle">>,
    <<"w", "WR", "WRITE", "wWRITE">>,    <<"wWRITE", "UN", "WRITE", "w">>,
    <<"w", "WR", "CKPT", "wCKPT">>,      <<"wCKPT", "UN", "CKPT", "w">>,
    <<"w", "WR", "RECOVER", "wRECOVER">>, <<"wRECOVER", "UN", "RECOVER", "w">> }
  \cup { <<"w", "RD", n, "w" \o n>> : n \in ReadSlots }
  \cup { <<"w" \o n, "UN", n, "w">> : n \in ReadSlots }

ForeignStarts == {"idle", "hX"}

ForeignLocks(st) ==
  IF st = "hX"
  THEN [NoLocks EXCEPT !["db"] = SetLk(@, "WR", RegionRange("SHARED"))]
  ELSE NoLocks

(* ---------------- initial states ---------------------------------------- *)

InitRuns(active) ==
  /\ pc = [r \in Runs |-> IF r \in active THEN "open" ELSE "off"]
  /\ idx = [r \in Runs |-> 1]
  /\ at = [r \in Runs |-> "try"]
  /\ off = [r \in Runs |-> 0]
  /\ size = [r \in Runs |-> 0]
  /\ mode = [r \in Runs |-> "none"]
  /\ shmFile = [r \in Runs |-> FALSE]
  /\ deferShm = [r \in Runs |-> FALSE]
  /\ opened = [r \in Runs |-> {}]
  /\ deadline = [r \in Runs |-> FALSE]
  /\ expired = [r \in Runs |-> FALSE]
  /\ err = [r \in Runs |-> <<"running">>]
  /\ exclReq = [r \in Runs |-> FALSE]

Init ==
  /\ InitRuns({1})
  /\ \E d \in DstInputs, s \in SrcInputs, x \in SideInputs :
       fs = [dst |-> d, src |-> s, journal |-> x.journal, wal |-> x.wal,
             shm |-> x.shm]
  /\ fs0 = fs
  /\ \E t \in Timeouts : timeout = [r \in Runs |-> t]
  /\ fpc \in [Foreign -> ForeignStarts]
  /\ locks = [p \in Procs |-> IF p \in Foreign THEN ForeignLocks(fpc[p]) ELSE NoLocks]

(* ---------------- run(): return, with the deferred closes --------------- *)

\* return e: the deferred Close calls run for srcDBFile, dstSHMFile (when its
\* defer was registered after lockAll succeeded) and dstDBFile
Return(r, e) ==
  /\ pc' = [pc EXCEPT ![r] = "returned"]
  /\ err' = [err EXCEPT ![r] = e]
  /\ locks' = [locks EXCEPT ![r] =
                 [f \in Files |->
                    IF f = "db" \/ deferShm[r] THEN Unlocked(f) ELSE locks[r][f]]]
  /\ opened' = [opened EXCEPT ![r] =
                  IF deferShm[r] THEN {} ELSE @ \cap {"shm"}]

Goto(r, p) == pc' = [pc EXCEPT ![r] = p]

(* ---------------- run(): open the destination, set the deadline --------- *)

\* the destination is opened without os.O_CREATE: a missing file is an error
OpenNoCreate(r) ==
  /\ pc[r] = "open"
  /\ IF fs.dst.ex
     THEN /\ opened' = [opened EXCEPT ![r] = @ \cup {"dst"}]
          /\ Goto(r, "context")
          /\ UNCHANGED <<locks, err>>
     ELSE Return(r, <<"io", "open">>)
  /\ off' = [off EXCEPT ![r] = 0]
  /\ UNCHANGED <<idx, at, fs, size, mode, shmFile, deferShm, timeout,
                 deadline, expired, exclReq, fpc, fs0>>

\* os.OpenFile(dst, os.O_RDWR|os.O_CREATE, 0666)
Open(r) ==
  /\ pc[r] = "open"
  /\ fs' = [fs EXCEPT !.dst = IF @.ex THEN @ ELSE File(<<>>)]
  /\ opened' = [opened EXCEPT ![r] = @ \cup {"dst"}]
  /\ off' = [off EXCEPT ![r] = 0]
  /\ Goto(r, "context")
  /\ UNCHANGED <<idx, at, locks, size, mode, shmFile, deferShm, timeout,
                 deadline, expired, err, exclReq, fpc, fs0>>

\* the context is left without a deadline whatever the flag says
SetContextNoDeadline(r) ==
  /\ pc[r] = "context"
  /\ deadline' = [deadline EXCEPT ![r] = FALSE]
  /\ Goto(r, "probe")
  /\ idx' = [idx EXCEPT ![r] = 1]
  /\ UNCHANGED <<at, locks, fs, off, size, mode, shmFile, deferShm, opened,
                 timeout, expired, err, exclReq, fpc, fs0>>

\* if *timeout > 0 { ctx, cancel := context.WithTimeout(lockCtx, *timeout) }
SetContext(r) ==
  /\ pc[r] = "context"
  /\ deadline' = [deadline EXCEPT ![r] = timeout[r] > 0]
  /\ Goto(r, "probe")
  /\ idx' = [idx EXCEPT ![r] = 1]
  /\ UNCHANGED <<at, locks, fs, off, size, mode, shmFile, deferShm, opened,
                 timeout, expired, err, exclReq, fpc, fs0>>

\* the deadline of the context passes while run() is still executing
Expire(r) ==
  /\ deadline[r]
  /\ ~expired[r]
  /\ pc[r] \notin {"returned", "exited"}
  /\ expired' = [expired EXCEPT ![r] = TRUE]
  /\ UNCHANGED <<pc, idx, at, locks, fs, off, size, mode, shmFile, deferShm,
                 opened, timeout, deadline, err, exclReq, fpc, fs0>>

(* ---------------- lock(): one F_SETLK attempt, then the select ---------- *)

\* where lockAll goes once the last request of a plan is granted
AfterPlan(p) == IF p = "probe" THEN "detect" ELSE "rmjournal"

\* the result of the syscall is not looked at
GrantedUnchecked(r, file, typ, rg) == TRUE

\* syscall.FcntlFlock(f.Fd(), syscall.F_SETLK, ...) == nil
Granted(r, file, typ, rg) == ~Blocked(r, file, typ, rg)

LockTry(r) ==
  /\ pc[r] \in LockSteps
  /\ at[r] = "try"
  /\ LET plan == PlanOf(pc[r])
         typ == plan[idx[r]][1]
         name == plan[idx[r]][2]
         file == FileOf(name)
         rg == FlockRange(LockByte(name))
     IN  /\ exclReq' = [exclReq EXCEPT ![r] = @ \/ typ = "WR"]
         /\ IF Granted(r, file, typ, rg)
            THEN /\ locks' = [locks EXCEPT ![r][file] = SetLk(@, typ, rg)]
                 /\ IF idx[r] < Len(plan)
                    THEN /\ idx' = [idx EXCEPT ![r] = @ + 1]
                         /\ UNCHANGED <<pc, deferShm>>
                    ELSE /\ idx' = [idx EXCEPT ![r] = 1]
                         /\ Goto(r, AfterPlan(pc[r]))
                         /\ deferShm' = [deferShm EXCEPT ![r] =
                                           IF pc[r] = "probe" THEN @ ELSE shmFile[r]]
                 /\ UNCHANGED at
            ELSE /\ at' = [at EXCEPT ![r] = "wait"]
                 /\ UNCHANGED <<pc, idx, locks, deferShm>>
  /\ UNCHANGED <<fs, off, size, mode, shmFile, opened, timeout, deadline,
                 expired, err, fpc, fs0>>

\* select: case <-ticker.C: attempt again
LockPoll(r) ==
  /\ pc[r] \in LockSteps
  /\ at[r] = "wait"
  /\ at' = [at EXCEPT ![r] = "try"]
  /\ UNCHANGED <<pc, idx, locks, fs, off, size, mode, shmFile, deferShm, opened,
                 timeout, deadline, expired, err, exclReq, fpc, fs0>>

\* select: case <-ctx.Done(): return ctx.Err(), wrapped by lockAll with the
\* request that was waiting
LockTimeout(r) ==
  /\ pc[r] \in LockSteps
  /\ at[r] = "wait"
  /\ expired[r]
  /\ Return(r, <<"timeout", PlanOf(pc[r])[idx[r]][1], PlanOf(pc[r])[idx[r]][2]>>)
  /\ UNCHANGED <<idx, at, fs, off, size, mode, shmFile, deferShm, timeout,
                 deadline, expired, exclReq, fpc, fs0>>

(* ---------------- lockAll: mode detection, shared-memory file ----------- *)

\* the mode is read from the header of the source
DetectFromSource(r) ==
  /\ pc[r] = "detect"
  /\ LET res == isWALMode(fs.src.data, 0)
     IN  /\ off' = [off EXCEPT ![r] =
                      @ + Len(ReadFull(fs.dst.data, @, HeaderSize))]
         /\ IF res = "mismatch"
            THEN /\ Return(r, <<"mismatch">>)
                 /\ UNCHANGED <<mode, idx>>
            ELSE /\ mode' = [mode EXCEPT ![r] = res]
                 /\ Goto(r, IF res = "wal" THEN "openshm" ELSE "rollback")
                 /\ idx' = [idx EXCEPT ![r] = 1]
                 /\ UNCHANGED <<locks, opened, err>>
  /\ UNCHANGED <<at, fs, size, shmFile, deferShm, timeout, deadline, expired,
                 exclReq, fpc, fs0>>

Detect(r) ==
  /\ pc[r] = "detect"
  /\ LET res == isWALMode(fs.dst.data, off[r])
     IN  /\ off' = [off EXCEPT ![r] =
                      @ + Len(ReadFull(fs.dst.data, @, HeaderSize))]
         /\ IF res = "mismatch"
            THEN /\ Return(r, <<"mismatch">>)
                 /\ UNCHANGED <<mode, idx>>
            ELSE /\ mode' = [mode EXCEPT ![r] = res]
                 /\ Goto(r, IF res = "wal" THEN "openshm" ELSE "rollback")
                 /\ idx' = [idx EXCEPT ![r] = 1]
                 /\ UNCHANGED <<locks, opened, err>>
  /\ UNCHANGED <<at, fs, size, shmFile, deferShm, timeout, deadline, expired,
                 exclReq, fpc, fs0>>

\* the shared-memory file is opened with os.O_TRUNC as well
OpenShmTrunc(r) ==
  /\ pc[r] = "openshm"
  /\ \E ok \in BOOLEAN :
       IF ok
       THEN /\ fs' = [fs EXCEPT !.shm = File(<<>>)]
            /\ shmFile' = [shmFile EXCEPT ![r] = TRUE]
            /\ opened' = [opened EXCEPT ![r] = @ \cup {"shm"}]
            /\ Goto(r, "wal")
            /\ UNCHANGED <<locks, err>>
       ELSE /\ Return(r, <<"io", "openshm">>)
            /\ UNCHANGED <<fs, shmFile>>
  /\ UNCHANGED <<idx, at, off, size, mode, deferShm, timeout, deadline, expired,
                 exclReq, fpc, fs0>>

\* *shmFile, err = os.OpenFile(dbFile.Name()+"-shm", os.O_RDWR|os.O_CREATE, 0666)
OpenShm(r) ==
  /\ pc[r] = "openshm"
  /\ \E ok \in BOOLEAN :
       IF ok
       THEN /\ fs' = [fs EXCEPT !.shm = IF @.ex THEN @ ELSE File(<<>>)]
            /\ shmFile' = [shmFile EXCEPT ![r] = TRUE]
            /\ opened' = [opened EXCEPT ![r] = @ \cup {"shm"}]
            /\ Goto(r, "wal")
            /\ UNCHANGED <<locks, err>>
       ELSE /\ Return(r, <<"io", "openshm">>)
            /\ UNCHANGED <<fs, shmFile>>
  /\ UNCHANGED <<idx, at, off, size, mode, deferShm, timeout, deadline, expired,
                 exclReq, fpc, fs0>>

(* ---------------- run(): side files, copy, invalidation ----------------- *)

RunRest == <<idx, at, mode, shmFile, deferShm, timeout, deadline, expired,
             err, exclReq, fpc, fs0>>

\* the index header is zeroed first, together with the removal of the journal
RemoveJournalInvalidates(r) ==
  /\ pc[r] = "rmjournal"
  /\ fs' = [fs EXCEPT !.journal = NoFile,
                      !.shm = IF shmFile[r]
                              THEN File(WriteAt(@.data, 0, Zeros(ShmHeaderSize)))
                              ELSE @]
  /\ Goto(r, IF shmFile[r] THEN "truncwal" ELSE "opensrc")
  /\ UNCHANGED <<locks, off, size, opened>>
  /\ UNCHANGED RunRest

\* os.Remove(dst + "-journal"); a missing journal is not an error
RemoveJournal(r) ==
  /\ pc[r] = "rmjournal"
  /\ fs' = [fs EXCEPT !.journal = NoFile]
  /\ Goto(r, IF shmFile[r] THEN "truncwal" ELSE "opensrc")
  /\ UNCHANGED <<locks, off, size, opened>>
  /\ UNCHANGED RunRest

\* os.Truncate(dst+"-wal", 0); a missing WAL is not an error and stays missing
TruncateWal(r) ==
  /\ pc[r] = "truncwal"
  /\ fs' = [fs EXCEPT !.wal = IF @.ex THEN File(<<>>) ELSE @]
  /\ Goto(r, "opensrc")
  /\ UNCHANGED <<locks, off, size, opened>>
  /\ UNCHANGED RunRest

\* srcDBFile, err := os.Open(src)
OpenSrc(r) ==
  /\ pc[r] = "opensrc"
  /\ \E ok \in BOOLEAN :
       IF ok
       THEN /\ opened' = [opened EXCEPT ![r] = @ \cup {"src"}]
            /\ Goto(r, "stat")
            /\ UNCHANGED <<locks, err>>
       ELSE Return(r, <<"io", "opensrc">>)
  /\ UNCHANGED <<fs, off, size>>
  /\ UNCHANGED <<idx, at, mode, shmFile, deferShm, timeout, deadline, expired,
                 exclReq, fpc, fs0>>

\* fi, err := srcDBFile.Stat()
Stat(r) ==
  /\ pc[r] = "stat"
  /\ size' = [size EXCEPT ![r] = Len(fs.src.data)]
  /\ Goto(r, "seek")
  /\ UNCHANGED <<locks, fs, off, opened>>
  /\ UNCHANGED RunRest

\* the destination handle is left where the header read put it
SeekNoRewind(r) ==
  /\ pc[r] = "seek"
  /\ Goto(r, "copy")
  /\ UNCHANGED <<locks, fs, off, size, opened>>
  /\ UNCHANGED RunRest

\* dstDBFile.Seek(0, io.SeekStart); srcDBFile.Seek(0, io.SeekStart)
Seek(r) ==
  /\ pc[r] = "seek"
  /\ off' = [off EXCEPT ![r] = 0]
  /\ Goto(r, "copy")
  /\ UNCHANGED <<locks, fs, size, opened>>
  /\ UNCHANGED RunRest

\* io.Copy(dstDBFile, srcDBFile): the source bytes land at the handle's offset
Copy(r) ==
  /\ pc[r] = "copy"
  /\ fs' = [fs EXCEPT !.dst = File(WriteAt(@.data, off[r], fs.src.data))]
  /\ off' = [off EXCEPT ![r] = @ + Len(fs.src.data)]
  /\ Goto(r, "truncate")
  /\ UNCHANGED <<locks, size, opened>>
  /\ UNCHANGED RunRest

\* io.Copy fails after it has written the first half of the source
CopyFail(r) ==
  /\ pc[r] = "copy"
  /\ LET k == Len(fs.src.data) \div 2
     IN  fs' = [fs EXCEPT !.dst =
                  File(WriteAt(@.data, off[r], SubSeq(fs.src.data, 1, k)))]
  /\ Return(r, <<"io", "copy">>)
  /\ UNCHANGED <<idx, at, off, size, mode, shmFile, deferShm, timeout, deadline,
                 expired, exclReq, fpc, fs0>>

\* dstDBFile.Truncate(fi.Size())
Truncate(r) ==
  /\ pc[r] = "truncate"
  /\ fs' = [fs EXCEPT !.dst = File(Resize(@.data, size[r]))]
  /\ Goto(r, "sync")
  /\ UNCHANGED <<locks, off, size, opened>>
  /\ UNCHANGED RunRest

\* the sync is made under lockCtx: a passed deadline fails it
SyncUnderDeadline(r) ==
  /\ pc[r] = "sync"
  /\ IF expired[r]
     THEN /\ Return(r, <<"timeout", "sync", "dst">>)
          /\ UNCHANGED <<fs, off, size, idx, at, mode, shmFile, deferShm,
                         timeout, deadline, expired, exclReq, fpc, fs0>>
     ELSE /\ Goto(r, IF shmFile[r] THEN "invalidate" ELSE "dirsync")
          /\ UNCHANGED <<locks, fs, off, size, opened>>
          /\ UNCHANGED RunRest

\* dstDBFile.Sync()
Sync(r) ==
  /\ pc[r] = "sync"
  /\ Goto(r, IF shmFile[r] THEN "invalidate" ELSE "dirsync")
  /\ UNCHANGED <<locks, fs, off, size, opened>>
  /\ UNCHANGED RunRest

\* one byte too few is zeroed
InvalidateShort(r) ==
  /\ pc[r] = "invalidate"
  /\ fs' = [fs EXCEPT !.shm = File(WriteAt(@.data, 0, Zeros(ShmHeaderSize - 1)))]
  /\ Goto(r, "dirsync")
  /\ UNCHANGED <<locks, off, size, opened>>
  /\ UNCHANGED RunRest

\* dstSHMFile.WriteAt(make([]byte, 136), 0)
Invalidate(r) ==
  /\ pc[r] = "invalidate"
  /\ fs' = [fs EXCEPT !.shm = File(WriteAt(@.data, 0, Zeros(ShmHeaderSize)))]
  /\ Goto(r, "dirsync")
  /\ UNCHANGED <<locks, off, size, opened>>
  /\ UNCHANGED RunRest

\* os.Open(filepath.Dir(dst)); dir.Sync()
DirSync(r) ==
  /\ pc[r] = "dirsync"
  /\ Goto(r, "closesrc")
  /\ UNCHANGED <<locks, fs, off, size, opened>>
  /\ UNCHANGED RunRest

(* ---------------- run(): release ---------------------------------------- *)

\* srcDBFile.Close()
CloseSrc(r) ==
  /\ pc[r] = "closesrc"
  /\ opened' = [opened EXCEPT ![r] = @ \ {"src"}]
  /\ Goto(r, "closedst")
  /\ UNCHANGED <<locks, fs, off, size>>
  /\ UNCHANGED RunRest

\* dstDBFile.Close()
CloseDst(r) ==
  /\ pc[r] = "closedst"
  /\ opened' = [opened EXCEPT ![r] = @ \ {"dst"}]
  /\ locks' = [locks EXCEPT ![r]["db"] = Unlocked("db")]
  /\ Goto(r, IF shmFile[r] THEN "closeshm" ELSE "return")
  /\ UNCHANGED <<fs, off, size>>
  /\ UNCHANGED RunRest

\* dstSHMFile.Close()
CloseShm(r) ==
  /\ pc[r] = "closeshm"
  /\ opened' = [opened EXCEPT ![r] = @ \ {"shm"}]
  /\ locks' = [locks EXCEPT ![r]["shm"] = Unlocked("shm")]
  /\ Goto(r, "return")
  /\ UNCHANGED <<fs, off, size>>
  /\ UNCHANGED RunRest

\* return nil
ReturnNil(r) ==
  /\ pc[r] = "return"
  /\ Return(r, <<"ok">>)
  /\ UNCHANGED <<idx, at, fs, off, size, mode, shmFile, deferShm, timeout,
                 deadline, expired, exclReq, fpc, fs0>>

\* a file operation of run() after lockAll fails without effect on the files
IOSteps ==
  {"rmjournal", "truncwal", "stat", "seek", "copy", "truncate", "sync",
   "invalidate", "dirsync", "closesrc", "closedst", "closeshm"}

IOFail(r) ==
  /\ pc[r] \in IOSteps
  /\ Return(r, <<"io", pc[r]>>)
  /\ UNCHANGED <<idx, at, fs, off, size, mode, shmFile, deferShm, timeout,
                 deadline, expired, exclReq, fpc, fs0>>

\* main(): the process ends; the kernel closes what is still open
Exit(r) ==
  /\ pc[r] = "returned"
  /\ Goto(r, "exited")
  /\ locks' = [locks EXCEPT ![r] = NoLocks]
  /\ opened' = [opened EXCEPT ![r] = {}]
  /\ UNCHANGED <<fs, off, size>>
  /\ UNCHANGED RunRest

(* ---------------- a step of another process ----------------------------- *)

ForeignStep(p) ==
  \E mv \in ForeignMoves :
    LET file == FileOf(mv[3])
        rg == RegionRange(mv[3])
    IN  /\ fpc[p] = mv[1]
        /\ file = "shm" => fs.shm.ex
        /\ ~Blocked(p, file, mv[2], rg)
        /\ locks' = [locks EXCEPT ![p][file] = SetLk(@, mv[2], rg)]
        /\ fpc' = [fpc EXCEPT ![p] = mv[4]]
        /\ UNCHANGED <<pc, idx, at, fs, off, size, mode, shmFile, deferShm,
                       opened, timeout, deadline, expired, err, exclReq, fs0>>

(* ---------------- specifications ---------------------------------------- *)

RunNext(r) ==
  \/ Open(r)
  \/ SetContext(r)
  \/ Expire(r)
  \/ LockTry(r)
  \/ LockPoll(r)
  \/ LockTimeout(r)
  \/ Detect(r)
  \/ OpenShm(r)
  \/ RemoveJournal(r)
  \/ TruncateWal(r)
  \/ OpenSrc(r)
  \/ Stat(r)
  \/ Seek(r)
  \/ Copy(r)
  \/ CopyFail(r)
  \/ Truncate(r)
  \/ Sync(r)
  \/ Invalidate(r)
  \/ DirSync(r)
  \/ CloseSrc(r)
  \/ CloseDst(r)
  \/ CloseShm(r)
  \/ ReturnNil(r)
  \/ IOFail(r)
  \/ Exit(r)

\* one restore process among other processes of the database engine
Next ==
  \/ \E r \in Runs : RunNext(r)
  \/ \E p \in Foreign : ForeignStep(p)

Spec == Init /\ [][Next]_vars

\* two restore processes started on the same destination, no other process
InitTwo ==
  /\ InitRuns(Runs)
  /\ \E d \in DstInputs, s \in SrcInputs, x \in SideInputs :
       fs = [dst |-> d, src |-> s, journal |-> x.journal, wal |-> x.wal,
             shm |-> x.shm]
  /\ fs0 = fs
  /\ \E t \in Timeouts : timeout = [r \in Runs |-> t]
  /\ fpc = [p \in Foreign |-> "idle"]
  /\ locks = [p \in Procs |-> NoLocks]

NextTwo == \E r \in Runs : RunNext(r)

SpecTwo == InitTwo /\ [][NextTwo]_vars

(* ======================================================================= *)
(* Properties                                                              *)
(* ======================================================================= *)

Returned(r) == pc[r] \in {"returned", "exited"}

Succeeded(r) == Returned(r) /\ err[r] = <<"ok">>

\* the lock set the detected mode asks for: RESERVED, PENDING and SHARED
\* exclusive on the database file; DMS (held at least shared) and WRITE, CKPT,
\* RECOVER, READ0..READ4 exclusive on the shared-memory file
FullSet(r) ==
  IF mode[r] = "wal"
  THEN /\ Holds(r, "DMS", {"R", "W"})
       /\ \A n \in ShmRegions \ {"DMS"} : Holds(r, n, {"W"})
  ELSE /\ mode[r] = "rollback"
       /\ \A n \in DbRegions : Holds(r, n, {"W"})

\* a step deletes the journal, truncates the WAL, writes or truncates an
\* existing destination, or changes the bytes of an existing shared-memory file
Mutated ==
  \/ fs'.journal # fs.journal
  \/ fs'.wal # fs.wal
  \/ (fs.dst.ex /\ fs'.dst # fs.dst)
  \/ (fs.shm.ex /\ fs'.shm # fs.shm)

\* C1: every step that mutates the destination or a side file is taken by a
\* run that holds, before the step, the full lock set of its detected mode.
C1_MutationUnderFullLockSet ==
  [][Mutated => \A r \in Runs : pc'[r] # pc[r] => FullSet(r)]_vars

\* a run that has copied over a longer WAL-mode destination, locks still held
C1_Witness ==
  /\ pc[1] = "truncate"
  /\ mode[1] = "wal"
  /\ FullSet(1)
  /\ fs.dst # fs0.dst
  /\ ~fs.journal.ex /\ fs0.journal.ex

\* the steps from the first mutation to the last one
Mutating(r) ==
  pc[r] \in {"rmjournal", "truncwal", "opensrc", "stat", "seek", "copy",
             "truncate", "sync", "invalidate"}

\* another process holds a lock that conflicts with the lock set of r's mode
ConflictingHolder(r) ==
  \E p \in Procs \ {r} :
    IF mode[r] = "wal"
    THEN \/ Touches(p, "DMS", {"W"})
         \/ \E n \in ShmRegions \ {"DMS"} : Touches(p, n, {"R", "W"})
    ELSE \E n \in DbRegions : Touches(p, n, {"R", "W"})

\* C2: while a run is between its first and its last mutation no other
\* process holds a lock that conflicts with the lock set of the run's mode.
C2_NoConflictingHolderWhileMutating ==
  \A r \in Runs : Mutating(r) => ~ConflictingHolder(r)

\* the run copies in WAL mode while a reader holds SHARED on the database file
C2_Witness ==
  /\ pc[1] = "copy"
  /\ mode[1] = "wal"
  /\ fpc[3] = "fS"
  /\ Touches(3, "SHARED", {"R"})

\* C3: after a successful restore the destination has exactly the bytes and
\* the length of the source.
C3_ContentEquivalence ==
  \A r \in Runs :
    Succeeded(r) =>
      /\ fs.dst.ex
      /\ Len(fs.dst.data) = Len(fs.src.data)
      /\ fs.dst.data = fs.src.data

\* a successful restore over a destination that was longer than the source
C3_Witness ==
  /\ Succeeded(1)
  /\ fs0.dst.ex
  /\ Len(fs0.dst.data) > Len(fs.src.data)
  /\ fs0.dst.data # fs.dst.data

\* C4 (as claimed): when run() has returned, the process has no handle open
\* and holds no lock on any file.
C4_NothingHeldOnReturn ==
  \A r \in Runs : pc[r] = "returned" => opened[r] = {} /\ locks[r] = NoLocks

\* the lock request run a is making is refused because of a lock run b holds
WaitsOn(a, b) ==
  /\ pc[a] \in LockSteps
  /\ LET typ == PlanOf(pc[a])[idx[a]][1]
         name == PlanOf(pc[a])[idx[a]][2]
         rg == FlockRange(LockByte(name))
     IN  /\ typ # "UN"
         /\ \E c \in Cells(FileOf(name)) :
              /\ Covers(rg, c)
              /\ locks[b][FileOf(name)][c] # "U"
              /\ (typ = "WR" \/ locks[b][FileOf(name)][c] = "W")

\* both runs poll for a region the other holds and neither has a deadline: a
\* polling run releases nothing, so the state lasts forever
MutualWait ==
  \E a \in Runs, b \in Runs :
    /\ a # b
    /\ WaitsOn(a, b) /\ WaitsOn(b, a)
    /\ ~deadline[a] /\ ~deadline[b]

\* C5 (as claimed): two concurrent restore runs never reach a state in which
\* each waits forever for a region the other holds.
C5_NoMutualWait == ~MutualWait

\* C6 (as claimed): while another process holds the SHARED region exclusively
\* the run gets PENDING shared and waits for SHARED, and the error it returns
\* is the timeout of the shared SHARED request.
C6_TimeoutNamesShared ==
  \A r \in Runs :
    (\E p \in Foreign : fpc[p] = "hX") =>
      /\ (pc[r] = "probe" /\ at[r] = "wait" => idx[r] = 2)
      /\ (Returned(r) => err[r] = <<"timeout", "RD", "SHARED">>)

\* the mode the header bytes stand for: shorter than the header is Rollback;
\* write and read version both 2 is WriteAheadLog, equal and not 2 is
\* Rollback, different is a mismatch
HeaderMode(d) ==
  IF Len(d) < HeaderSize THEN "rollback"
  ELSE IF d[WriteVersionOff + 1] = 2 /\ d[ReadVersionOff + 1] = 2 THEN "wal"
  ELSE IF d[WriteVersionOff + 1] = d[ReadVersionOff + 1] THEN "rollback"
  ELSE "mismatch"

\* C7: what mode detection yields is decided by the destination's header
\* alone: a run that went on after detection has the mode of the header, and
\* a run that failed with the mismatch error had differing version bytes.
C7_ModeDetection ==
  \A r \in Runs :
    /\ pc[r] \in {"rollback", "openshm"} => mode[r] = HeaderMode(fs.dst.data)
    /\ err[r] = <<"mismatch">> => HeaderMode(fs.dst.data) = "mismatch"

\* detection has answered WriteAheadLog for a destination longer than the header
C7_Witness ==
  /\ pc[1] = "openshm"
  /\ mode[1] = "wal"
  /\ Len(fs.dst.data) > HeaderSize
  /\ fs.dst.data[WriteVersionOff + 1] = 2
  /\ fs.dst.data[ReadVersionOff + 1] = 2

\* C8: a run on a destination whose version bytes differ gets no further
\* than detection: it ends with the mismatch error (or with a timeout of one
\* of the two shared probe locks before detection), it never requests an
\* exclusive lock, never opens the shared-memory file and changes no file.
C8_MismatchRequestsNothing ==
  \A r \in Runs :
    (HeaderMode(fs0.dst.data) = "mismatch" /\ pc[r] # "off") =>
      /\ pc[r] \in {"open", "context", "probe", "detect", "returned", "exited"}
      /\ err[r] \in {<<"running">>, <<"mismatch">>,
                     <<"timeout", "RD", "PENDING">>, <<"timeout", "RD", "SHARED">>}
      /\ pc[r] \in {"open", "context", "probe", "detect"} <=> err[r] = <<"running">>
      /\ ~exclReq[r]
      /\ ~shmFile[r] /\ "shm" \notin opened[r]
      /\ fs = fs0

\* the run has failed with the mismatch error
C8_Witness ==
  /\ pc[1] = "exited"
  /\ err[1] = <<"mismatch">>
  /\ fs0.dst.data[WriteVersionOff + 1] # fs0.dst.data[ReadVersionOff + 1]

\* C9: a run on a destination that did not exist creates it, detects Rollback
\* (never WriteAheadLog, never a mismatch), stays away from the shared-memory
\* file, fails only by a lock timeout or a file error, and on success leaves
\* the destination byte-identical to the source.
C9_NewDestination ==
  \A r \in Runs :
    (~fs0.dst.ex /\ pc[r] # "off") =>
      /\ pc[r] # "open" => fs.dst.ex
      /\ mode[r] \in {"none", "rollback"}
      /\ pc[r] \notin {"openshm", "wal", "truncwal", "invalidate", "closeshm"}
      /\ ~shmFile[r]
      /\ err[r][1] \in {"running", "ok", "timeout", "io"}
      /\ Succeeded(r) => fs.dst = File(fs.src.data)

\* a successful restore into a destination that did not exist
C9_Witness ==
  /\ ~fs0.dst.ex
  /\ Succeeded(1)
  /\ mode[1] = "rollback"
  /\ fs.dst.ex /\ fs.dst.data = fs.src.data

\* the first 136 bytes of the shared-memory file are zero
ShmHeaderZero ==
  /\ fs.shm.ex
  /\ Len(fs.shm.data) >= ShmHeaderSize
  /\ \A i \in 1..ShmHeaderSize : fs.shm.data[i] = 0

\* C10 (as claimed): after a successful Rollback restore there is no journal;
\* after a successful WriteAheadLog restore the WAL exists with length 0 and
\* the shared-memory header is zero.
C10_SideFilesAsClaimed ==
  \A r \in Runs :
    Succeeded(r) =>
      IF mode[r] = "wal"
      THEN fs.wal.ex /\ Len(fs.wal.data) = 0 /\ ShmHeaderZero
      ELSE ~fs.journal.ex

\* C10 (amended): after a successful Rollback restore there is no journal;
\* after a successful WriteAheadLog restore a WAL that existed before the run
\* exists with length 0, a WAL that did not exist still does not exist, and
\* the shared-memory header is zero.
C10_SideFileCleanup ==
  \A r \in Runs :
    Succeeded(r) =>
      IF mode[r] = "wal"
      THEN /\ fs.wal = (IF fs0.wal.ex THEN File(<<>>) ELSE NoFile)
           /\ ShmHeaderZero
      ELSE ~fs.journal.ex

\* a successful WriteAheadLog restore where neither WAL nor shared-memory
\* file existed before
C10_Witness ==
  /\ Succeeded(1)
  /\ mode[1] = "wal"
  /\ ~fs0.wal.ex /\ ~fs.wal.ex
  /\ ~fs0.shm.ex /\ ShmHeaderZero

(* ---------------- C11: waiting without a deadline ----------------------- *)

\* the request lock() is making for run r
Request(r) == PlanOf(pc[r])[idx[r]]

\* another process holds a lock on the named region that conflicts with a
\* request of the given type
Contended(r, typ, name) == Blocked(r, FileOf(name), typ, RegionRange(name))

\* C11: a run started without a timeout never returns a timeout or
\* cancellation error, and an attempt made while no other process holds a
\* conflicting lock on the requested region is granted, so that polling ends
\* once the holder has released the region and nobody else has taken it.
C11_GrantedOnceRegionFree ==
  \A r \in Runs :
    /\ timeout[r] = 0 => err[r][1] # "timeout"
    /\ (pc[r] \in LockSteps /\ at[r] = "try"
          /\ ~Contended(r, Request(r)[1], Request(r)[2]))
       => Granted(r, FileOf(Request(r)[2]), Request(r)[1],
                  FlockRange(LockByte(Request(r)[2])))

(* ---------------- C12: what the timeout bounds -------------------------- *)

\* the run has left lockAll with its locks and is deleting, copying, syncing
\* or closing
PastLockAll(r) == pc[r] \in IOSteps \cup {"opensrc", "return"}

\* C12: the deadline exists from before the first lock request, is the same
\* for every acquisition (once passed it stays passed), and only a lock
\* acquisition that is waiting can end the run with a timeout: once lockAll
\* has returned, the run never fails with a timeout, expired or not.
C12_TimeoutBoundsLockWaitOnly ==
  /\ [](\A r \in Runs :
          /\ pc[r] \in LockSteps \cup {"detect", "openshm"}
               => deadline[r] = (timeout[r] > 0)
          /\ err[r][1] = "timeout" => expired[r]
          /\ PastLockAll(r) => err[r] = <<"running">>)
  /\ [][\A r \in Runs :
          /\ expired[r] => expired'[r]
          /\ pc[r] \in LockSteps => deadline'[r] = deadline[r]
          /\ (err[r][1] # "timeout" /\ err'[r][1] = "timeout")
               => pc[r] \in LockSteps /\ at[r] = "wait" /\ expired[r]]_vars

\* the deadline passed after the locks were taken and the restore succeeded
C12_Witness ==
  /\ Succeeded(1)
  /\ expired[1]
  /\ fs.dst.data = fs.src.data

(* ---------------- C13: byte range of a request -------------------------- *)

\* how process p holds the bytes of the named region
HoldOn(p, name) ==
  [c \in {x \in Cells(FileOf(name)) : Covers(RegionRange(name), x)} |->
     locks[p][FileOf(name)][c]]

\* C13: a lock or unlock request covers the byte range of the region it
\* names and nothing else, so a granted request leaves the run's hold on
\* every other named region as it was; after the probe has released PENDING
\* the run still holds SHARED, and after WRITE is taken DMS is still shared.
C13_RequestCoversItsRegionOnly ==
  /\ [](\A r \in Runs :
          /\ pc[r] = "detect" => Holds(r, "SHARED", {"R"})
          /\ (pc[r] = "wal" /\ idx[r] > 2) => Holds(r, "DMS", {"R"}))
  /\ [][\A r \in Runs :
          (pc[r] \in LockSteps /\ at[r] = "try" /\ locks'[r] # locks[r])
            => /\ FlockRange(LockByte(Request(r)[2])) = RegionRange(Request(r)[2])
               /\ \A n \in Regions \ {Request(r)[2]} :
                    HoldOn(r, n)' = HoldOn(r, n)]_vars

(* ---------------- C14: the probe ---------------------------------------- *)

\* C14: when mode detection runs, the probe RD PENDING, RD SHARED,
\* UN PENDING is complete, the run holds SHARED in shared mode and neither
\* PENDING nor RESERVED, and it has requested no exclusive lock so far; no
\* exclusive lock is requested before detection is done.
C14_ProbeHoldsSharedOnly ==
  \A r \in Runs :
    /\ pc[r] = "detect" =>
         /\ Holds(r, "SHARED", {"R"})
         /\ Holds(r, "PENDING", {"U"})
         /\ Holds(r, "RESERVED", {"U"})
         /\ locks[r]["shm"] = Unlocked("shm")
    /\ pc[r] \in {"open", "context", "probe", "detect"} => ~exclReq[r]

(* ---------------- C15: the rollback-mode upgrade ------------------------ *)

\* another process holds a lock, and nothing but shared locks on SHARED
OnlyReaders ==
  \A q \in Procs \ Runs :
    \A c \in DbCells :
      locks[q]["db"][c] # "U"
        => locks[q]["db"][c] = "R" /\ Covers(RegionRange("SHARED"), c)

\* C15: the rollback upgrade asks for RESERVED, PENDING and SHARED
\* exclusively, each after the one before was granted; until RESERVED is
\* granted the run holds no exclusive lock, while it waits for PENDING it
\* holds none on PENDING or SHARED, while it waits for SHARED none on SHARED,
\* and RESERVED is granted while other processes hold only shared SHARED.
C15_UpgradeAlongNativePath ==
  \A r \in Runs :
    pc[r] = "rollback" =>
      /\ idx[r] = 1 => \A n \in DbRegions : ~Touches(r, n, {"W"})
      /\ idx[r] = 2 => /\ Holds(r, "RESERVED", {"W"})
                       /\ ~Touches(r, "PENDING", {"W"})
                       /\ ~Touches(r, "SHARED", {"W"})
      /\ idx[r] = 3 => /\ Holds(r, "RESERVED", {"W"})
                       /\ Holds(r, "PENDING", {"W"})
                       /\ ~Touches(r, "SHARED", {"W"})
      /\ (idx[r] = 1 /\ OnlyReaders)
           => Granted(r, "db", "WR", FlockRange(LockByte("RESERVED")))

(* ---------------- C16: the WAL-mode upgrade ----------------------------- *)

\* C16: the WAL upgrade runs on an opened shared-memory file and takes DMS
\* shared, then WRITE, CKPT, RECOVER, READ0..READ4 exclusive in that order;
\* from the grant of DMS until release the run holds DMS in shared mode,
\* never exclusive, so another process can still take DMS shared.
C16_DmsStaysShared ==
  \A r \in Runs :
    /\ pc[r] = "wal" => shmFile[r] /\ fs.shm.ex
    /\ ((pc[r] = "wal" /\ idx[r] > 1)
          \/ (mode[r] = "wal" /\ PastLockAll(r)))
       => /\ Holds(r, "DMS", {"R"})
          /\ \A q \in Procs \ {r} : ~Blocked(q, "shm", "RD", RegionRange("DMS"))
    /\ \A i \in 1..Len(WalPlan) :
         (pc[r] = "wal" /\ idx[r] > i /\ i > 1) => Holds(r, WalPlan[i][2], {"W"})

(* ---------------- C17: order of the restore steps ----------------------- *)

\* the positions of run() after lockAll, in program order
StepOrder ==
  << "rmjournal", "truncwal", "opensrc", "stat", "seek", "copy", "truncate",
     "sync", "invalidate", "dirsync", "closesrc", "closedst", "closeshm",
     "return" >>

StepPos(p) == CHOOSE i \in 1..Len(StepOrder) : StepOrder[i] = p

\* run r is past lockAll and has completed the step at position p
Done(r, p) == PastLockAll(r) /\ StepPos(pc[r]) > StepPos(p)

\* the shared-memory file as lockAll left it
ShmBefore == IF fs0.shm.ex THEN fs0.shm ELSE File(<<>>)

\* the destination as the open left it
DstBefore == IF fs0.dst.ex THEN fs0.dst ELSE File(<<>>)

\* C17: a run that is past lockAll deletes the journal, truncates the WAL
\* (WAL mode), copies the source from offset 0, truncates to the source
\* size, syncs, zeroes the index header (WAL mode, only after the synced
\* destination equals the source), syncs the directory and then closes
\* source, destination and shared-memory file in that order; the lock set
\* is held from the first of these steps until the destination is closed,
\* and the locks of the shared-memory file until that file is closed.
C17_StepOrder ==
  /\ [](\A r \in Runs : PastLockAll(r) =>
          /\ Done(r, "rmjournal") => ~fs.journal.ex
          /\ ~Done(r, "truncwal") => fs.wal = fs0.wal
          /\ (mode[r] = "wal" /\ Done(r, "truncwal") /\ fs.wal.ex)
               => fs.wal.data = <<>>
          /\ mode[r] = "rollback" => pc[r] \notin {"truncwal", "invalidate", "closeshm"}
          /\ ~Done(r, "seek") => fs.dst = DstBefore
          /\ Done(r, "copy")
               => SubSeq(fs.dst.data, 1, Len(fs.src.data)) = fs.src.data
          /\ Done(r, "truncate") => fs.dst.data = fs.src.data
          /\ (mode[r] = "wal" /\ ~Done(r, "invalidate")) => fs.shm = ShmBefore
          /\ (mode[r] = "wal" /\ Done(r, "invalidate")) => ShmHeaderZero
          /\ ~Done(r, "closedst") => FullSet(r) /\ "dst" \in opened[r]
          /\ Done(r, "closedst") => "dst" \notin opened[r] /\ "src" \notin opened[r]
          /\ (Done(r, "opensrc") /\ ~Done(r, "closesrc")) => "src" \in opened[r]
          /\ Done(r, "closesrc") => "src" \notin opened[r]
          /\ (mode[r] = "wal" /\ ~Done(r, "closeshm"))
               => /\ "shm" \in opened[r]
                  /\ \A n \in ShmRegions : ~Touches(r, n, {"U"})
          /\ pc[r] = "return" => opened[r] = {})
  /\ [][\A r \in Runs :
          (PastLockAll(r) /\ pc'[r] # pc[r] /\ pc'[r] # "returned")
            => /\ PastLockAll(r)'
               /\ StepPos(pc'[r]) > StepPos(pc[r])
               /\ \A i \in (StepPos(pc[r]) + 1)..(StepPos(pc'[r]) - 1) :
                    /\ StepOrder[i] \in {"truncwal", "invalidate", "closeshm"}
                    /\ mode[r] = "rollback"]_vars

\* a WAL-mode run has synced the new content and not yet zeroed the index
\* header of a shared-memory file that existed before
C17_Witness ==
  /\ pc[1] = "invalidate"
  /\ mode[1] = "wal"
  /\ fs0.shm.ex
  /\ fs.shm = fs0.shm
  /\ fs.dst.data = fs.src.data
  /\ fs0.dst.data # fs.src.data
  /\ FullSet(1)

(* ---------------- C18: termination under a timeout ---------------------- *)

\* a run started with the default timeout on a new, a rollback-mode, a
\* WAL-mode or a mismatching destination, beside one other process
FairDstInputs ==
  { NoFile,
    File(MkDb(HeaderSize, 1, 1, 7)),
    File(MkDb(HeaderSize, 1, WALVersion, 7)),
    File(MkDb(HeaderSize + MaxExtra, WALVersion, WALVersion, 7)) }

InitFair ==
  /\ InitRuns({1})
  /\ \E d \in FairDstInputs, x \in SideInputs :
       fs = [dst |-> d, src |-> File(MkDb(HeaderSize, 1, 1, 9)),
             journal |-> x.journal, wal |-> x.wal, shm |-> x.shm]
  /\ fs0 = fs
  /\ timeout = [r \in Runs |-> DefaultTimeout]
  /\ fpc \in [Foreign -> ForeignStarts]
  /\ locks = [p \in Procs |-> IF p \in Foreign THEN ForeignLocks(fpc[p]) ELSE NoLocks]

\* a restore process keeps running while it has a step to take, the deadline
\* of its context passes, and a select that finds ctx.Done() ready at every
\* poll takes that case at some poll; other processes are under no obligation
FairSpec ==
  /\ InitFair
  /\ [][Next]_vars
  /\ \A r \in Runs :
       /\ WF_vars(RunNext(r))
       /\ WF_vars(Expire(r))
       /\ SF_vars(LockTimeout(r))

\* C18: a run started with a positive timeout returns, whatever the other
\* processes do; if it returns because a lock stayed contended, the error
\* is the timeout error, which no other failure produces.
C18_TerminatesUnderTimeout ==
  /\ \A r \in Runs :
       (pc[r] = "open" /\ timeout[r] > 0) ~> Returned(r)
  /\ [](\A r \in Runs :
          (Returned(r) /\ pc[r] = "returned" /\ at[r] = "wait")
             => err[r][1] = "timeout" /\ expired[r])

\* a run with a timeout gave up on a lock that another process kept
C18_Witness ==
  /\ pc[1] = "returned"
  /\ timeout[1] > 0
  /\ err[1] = <<"timeout", "RD", "PENDING">>
  /\ fpc[3] = "hX"

(* ---------------- C19: a failure before the lock set is complete -------- *)

\* run r failed in lockAll: a timeout in the probe or an upgrade, a header
\* whose version bytes differ, or the open of the shared-memory file
FailedInLockAll(r) ==
  /\ Returned(r)
  /\ \/ err[r][1] = "timeout"
     \/ err[r] = <<"mismatch">>
     \/ err[r] = <<"io", "openshm">>

\* C19: a run that fails before its exclusive lock set is complete leaves
\* the destination, the journal, the WAL and an existing shared-memory file
\* as they were; at most it has created an empty destination or an empty
\* shared-memory file that did not exist before.
C19_FailedLockAllChangesNothing ==
  \A r \in Runs :
    FailedInLockAll(r) =>
      /\ fs.dst = DstBefore
      /\ fs.journal = fs0.journal
      /\ fs.wal = fs0.wal
      /\ fs.src = fs0.src
      /\ fs.shm = fs0.shm \/ (~fs0.shm.ex /\ fs.shm = File(<<>>))
      /\ fs0.shm.ex => fs.shm = fs0.shm

\* a WAL-mode run that timed out on an exclusive request of the upgrade,
\* after it had created the shared-memory file
C19_Witness ==
  /\ pc[1] = "returned"
  /\ mode[1] = "wal"
  /\ err[1][1] = "timeout"
  /\ err[1][2] = "WR"
  /\ ~fs0.shm.ex
  /\ fs.shm = File(<<>>)
  /\ fs.dst = fs0.dst
  /\ fs.dst.ex

(* ---------------- C20: a rollback-mode run and the WAL files ------------ *)

\* C20: a run whose destination was detected as rollback-mode, whatever the
\* header of the source, never opens or creates the shared-memory file,
\* never holds or requests a lock on it, and leaves WAL and shared-memory
\* file as they were; the mode is the one of the destination's header as it
\* was before the run.
C20_RollbackLeavesWalFilesAlone ==
  /\ [](\A r \in Runs :
          mode[r] = "rollback" =>
            /\ HeaderMode(fs0.dst.data) = "rollback"
            /\ ~shmFile[r]
            /\ "shm" \notin opened[r]
            /\ pc[r] \notin {"openshm", "wal", "truncwal", "invalidate", "closeshm"}
            /\ locks[r]["shm"] = Unlocked("shm")
            /\ fs.shm = fs0.shm
            /\ fs.wal = fs0.wal)
  /\ [][\A r \in Runs :
          (pc[r] = "detect" /\ mode'[r] = "rollback" /\ fs0.dst.ex)
            => fs.dst = fs0.dst]_vars

\* a rollback-mode destination restored from a WAL-mode source, with the
\* old WAL and shared-memory file left in place
C20_Witness ==
  /\ Succeeded(1)
  /\ mode[1] = "rollback"
  /\ fs.src.data[WriteVersionOff + 1] = WALVersion
  /\ fs.dst.data = fs.src.data
  /\ fs0.wal.ex /\ fs.wal = fs0.wal /\ fs.wal.data # <<>>
  /\ fs0.shm.ex /\ fs.shm = fs0.shm

(* ---------------- C21: outcomes of one acquisition ---------------------- *)

\* lock() returns for run r only with nil (the run goes on in lockAll) or
\* with the error of the context; a refused attempt leads to the select,
\* from where the next tick makes another attempt; the context is looked at
\* only in the select, that is after an attempt of this acquisition
LockRetriesUntilGrantedOrDeadline ==
  /\ [](\A r \in Runs :
          (pc[r] \in LockSteps /\ at[r] = "wait") => ENABLED LockPoll(r))
  /\ [][\A r \in Runs :
          pc[r] \in LockSteps =>
            /\ pc'[r] = "returned"
                 => /\ err'[r][1] = "timeout"
                    /\ at[r] = "wait"
                    /\ expired[r]
            /\ (at[r] = "try" /\ locks'[r] = locks[r] /\ pc'[r] = pc[r]
                  /\ idx'[r] = idx[r] /\ at'[r] # at[r])
                 => at'[r] = "wait"
            /\ (at[r] = "wait" /\ at'[r] # at[r]) => at'[r] = "try"]_vars

\* C21: an acquisition ends in success or in the deadline error only; every
\* refused attempt is followed by a wait and another attempt; an attempt is
\* made before the deadline is looked at, so a request for a region on which
\* no other process holds a conflicting lock is granted although the
\* deadline has passed.
C21_AttemptBeforeDeadline ==
  /\ LockRetriesUntilGrantedOrDeadline
  /\ [](\A r \in Runs :
          (pc[r] \in LockSteps /\ at[r] = "try" /\ expired[r]
             /\ ~Contended(r, Request(r)[1], Request(r)[2]))
          => Granted(r, FileOf(Request(r)[2]), Request(r)[1],
                     FlockRange(LockByte(Request(r)[2]))))

====
